---- MODULE Spec2Model ----
(***************************************************************************)
(* A model of server/app.py of ChatPoweredEcommerce: the account and       *)
(* session handlers (UserAuthResource, UserLoginResource,                  *)
(* UserLogoutResource, SessionCheckResource) and order placement           *)
(* (OrderResource.post).                                                   *)
(*                                                                         *)
(* The record store is the committed content of the user_auth, order and   *)
(* order_detail tables.  Each client carries its own Flask session (the    *)
(* signed cookie), so `session` inside a handler is the session of the     *)
(* client that sent the request.                                           *)
(***************************************************************************)
EXTENDS Integers, Sequences, FiniteSets, TLC

\* ------------------------------------------------------------------ bounds
MaxUserId == 3     \* user_auth ids handed out are capped here
MaxOrders == 2     \* order ids handed out are capped here
MaxItems == 2      \* longest order_details list of a request

\* Two clients, each with its own session cookie.  A handler reads and writes
\* only the session of the client that sent the request, and the store.
Clients == {"c1", "c2"}
Usernames == {"alice", "bob"}
Emails == {"a@shop", "b@shop"}
Passwords == {"secret1", "wrong"}
Salts == {"s1"}

\* The catalog (product table) and the product ids and quantities requests name.
Products == {1}
ProductIds == {1, 99999}
Quantities == {0, 1}
\* The user ids createOrder requests name.
OrderUserIds == {1, 2}

\* A JSON field that the request body does not carry.
Absent == "<absent>"

\* session.get("user_id") on a session without the key: None.
None == 0

\* ------------------------------------------------------------------- state
VARIABLES
    accounts,      \* user_auth table: id -> [username, email, password_hash]
    sessions,      \* client -> that client's Flask session
    resp,          \* the response of the request completed last
    orders,        \* committed order table: id -> [user_id]
    orderDetails,  \* committed order_detail table, in insertion order
    tx,            \* client -> the unit of work of its createOrder in flight
    reg            \* client -> its register request, when its steps interleave

vars == <<accounts, sessions, resp, orders, orderDetails, tx, reg>>
authVars == <<accounts, sessions, reg>>
orderVars == <<orders, orderDetails, tx>>

\* ------------------------------------------------------------ PasswordHasher
\* bcrypt.generate_password_hash: a digest that embeds a fresh salt.
generate_password_hash(salt, plaintext) ==
    [salt |-> salt, hash |-> <<salt, plaintext>>]

\* A verification that accepts any plaintext.
check_password_hash_Any(digest, plaintext) == TRUE

\* bcrypt.check_password_hash: recompute with the salt embedded in the digest.
check_password_hash(digest, plaintext) ==
    generate_password_hash(digest.salt, plaintext) = digest

\* ----------------------------------------------------------------- sessions
\* session.clear(): no key is left.
EmptySession == [user_id |-> None, username |-> Absent, logged_in |-> FALSE]

\* A session marked logged in that does not hold the user id.
LoggedInSession_NoId(id, username) ==
    [user_id |-> None, username |-> username, logged_in |-> TRUE]

\* session["user_id"] = user.id; session["username"] = ...; logged_in = True
LoggedInSession(id, username) ==
    [user_id |-> id, username |-> username, logged_in |-> TRUE]

\* ------------------------------------------------------------------ queries
SetMax(S) == CHOOSE x \in S : \A y \in S : y <= x
SetMin(S) == CHOOSE x \in S : \A y \in S : x <= y

\* UserAuth.query.filter_by(username=u).first(): the id of the row, or None.
FindByUsername(accts, u) ==
    LET ids == {i \in DOMAIN accts : accts[i].username = u}
    IN  IF ids = {} THEN None ELSE SetMin(ids)

\* UserAuth.query.get(id): whether the row exists.
UserExists(accts, id) == id \in DOMAIN accts

\* The id the store gives a new user_auth row (integer primary key: one more
\* than the largest id in the table).
NextUserId(accts) ==
    IF DOMAIN accts = {} THEN 1 ELSE SetMax(DOMAIN accts) + 1

\* A delete that is never committed.
RemoveUser_Kept(accts, id) == accts

\* db.session.delete(user); db.session.commit()
RemoveUser(accts, id) == [i \in DOMAIN accts \ {id} |-> accts[i]]

\* ---------------------------------------------------------------- responses
NoView == [id |-> None, username |-> Absent, email |-> Absent]

Response(c, op, status, authenticated, view) ==
    [client |-> c, op |-> op, status |-> status,
     authenticated |-> authenticated, view |-> view]

UserView(accts, id) ==
    [id |-> id, username |-> accts[id].username, email |-> accts[id].email]

\* A check that answers a session whose account is gone with a fatal error.
SessionCheck_StaleFatal(c, sess, accts) ==
    IF sess.user_id # None
    THEN IF UserExists(accts, sess.user_id)
         THEN Response(c, "check_session", 200, TRUE,
                       UserView(accts, sess.user_id))
         ELSE Response(c, "check_session", 500, FALSE, NoView)
    ELSE Response(c, "check_session", 200, FALSE, NoView)

\* SessionCheckResource.get evaluated on a session and the store.
SessionCheck(c, sess, accts) ==
    IF sess.user_id # None
    THEN IF UserExists(accts, sess.user_id)
         THEN Response(c, "check_session", 200, TRUE,
                       UserView(accts, sess.user_id))
         ELSE Response(c, "check_session", 404, FALSE, NoView)
    ELSE Response(c, "check_session", 200, FALSE, NoView)

\* -------------------------------------------------------------------- Init
IdleTx == [pc |-> "idle", user_id |-> None, items |-> <<>>,
           order_id |-> None, added |-> <<>>]

\* No register request of the client is between its lookup and its insert.
IdleReg == [pc |-> "idle", username |-> Absent, email |-> Absent,
            password |-> Absent, salt |-> Absent, found |-> FALSE,
            status |-> None]

Init ==
    /\ accounts = <<>>
    /\ sessions = [c \in Clients |-> EmptySession]
    /\ resp = Response("c1", "none", 0, FALSE, NoView)
    /\ orders = <<>>
    /\ orderDetails = <<>>
    /\ tx = [c \in Clients |-> IdleTx]
    /\ reg = [c \in Clients |-> IdleReg]

\* ------------------------------------------------------- UserAuthResource
\* A registration that skips the lookup.
UsernameTaken_Unchecked(accts, u) == FALSE

\* Lines 85-86: `if user:` after the lookup by username.
UsernameTaken(accts, u) == FindByUsername(accts, u) # None

\* POST /user_auth
Register(c, u, e, p, salt) ==
    IF UsernameTaken(accounts, u)
    THEN /\ resp' = Response(c, "register", 400, FALSE, NoView)
         /\ UNCHANGED <<accounts, sessions, orderVars, reg>>
    ELSE LET id == NextUserId(accounts) IN
         /\ id <= MaxUserId
         /\ accounts' = accounts @@ (id :>
                [username |-> u, email |-> e,
                 password_hash |-> generate_password_hash(salt, p)])
         /\ sessions' = [sessions EXCEPT ![c] = LoggedInSession(id, u)]
         /\ resp' = Response(c, "register", 201, FALSE, NoView)
         /\ UNCHANGED <<orderVars, reg>>

\* The session of the client after a successful DELETE /user_auth.
SessionAfterDelete(sess, c, d, id) ==
    IF d = c THEN EmptySession ELSE sess[d]

\* DELETE /user_auth
DeleteUser(c, u, p) ==
    IF u = Absent \/ p = Absent
    THEN /\ resp' = Response(c, "delete", 400, FALSE, NoView)
         /\ UNCHANGED <<accounts, sessions, orderVars, reg>>
    ELSE LET id == FindByUsername(accounts, u) IN
         IF id # None /\ check_password_hash(accounts[id].password_hash, p)
         THEN /\ accounts' = RemoveUser(accounts, id)
              /\ sessions' = [d \in Clients |->
                                 SessionAfterDelete(sessions, c, d, id)]
              /\ resp' = Response(c, "delete", 200, FALSE, NoView)
              /\ UNCHANGED <<orderVars, reg>>
         ELSE IF id # None
         THEN /\ resp' = Response(c, "delete", 401, FALSE, NoView)
              /\ UNCHANGED <<accounts, sessions, orderVars, reg>>
         ELSE /\ resp' = Response(c, "delete", 404, FALSE, NoView)
              /\ UNCHANGED <<accounts, sessions, orderVars, reg>>

\* A patch that hashes the password it was sent for verification.
NewPasswordHash_Old(salt, old, new) == generate_password_hash(salt, old)

\* Lines 146-148: the digest of data["newPassword"].
NewPasswordHash(salt, old, new) == generate_password_hash(salt, new)

\* A patch that clears the session of the requesting client.
SessionAfterPatch_Cleared(sess) == EmptySession

\* The session of the requesting client after a successful PATCH /user_auth:
\* the handler writes no session key.
SessionAfterPatch(sess) == sess

\* PATCH /user_auth
ChangePassword(c, u, p, np, salt) ==
    LET id == FindByUsername(accounts, u) IN
    IF id # None /\ check_password_hash(accounts[id].password_hash, p)
    THEN /\ accounts' = [accounts EXCEPT ![id].password_hash =
                            NewPasswordHash(salt, p, np)]
         /\ sessions' = [sessions EXCEPT
                            ![c] = SessionAfterPatch(sessions[c])]
         /\ resp' = Response(c, "patch", 200, FALSE, NoView)
         /\ UNCHANGED <<orderVars, reg>>
    ELSE /\ resp' = Response(c, "patch", 401, FALSE, NoView)
         /\ UNCHANGED <<accounts, sessions, orderVars, reg>>

\* ------------------------------------------------------ UserLoginResource
\* A login that marks the session logged in without storing the user id.
SessionAfterLogin_NoId(accts, id) ==
    [user_id |-> None, username |-> accts[id].username, logged_in |-> TRUE]

\* The session a successful login stores.
SessionAfterLogin(accts, id) == LoggedInSession(id, accts[id].username)

\* Lines 168-173: the user is found and the password verifies.
LoginAccepts(accts, u, p) ==
    LET id == FindByUsername(accts, u)
    IN  id # None /\ check_password_hash(accts[id].password_hash, p)

\* POST /login
Login(c, u, p) ==
    IF u = Absent \/ p = Absent
    THEN /\ resp' = Response(c, "login", 400, FALSE, NoView)
         /\ UNCHANGED <<accounts, sessions, orderVars, reg>>
    ELSE LET id == FindByUsername(accounts, u) IN
         IF LoginAccepts(accounts, u, p)
         THEN /\ sessions' = [sessions EXCEPT
                                 ![c] = SessionAfterLogin(accounts, id)]
              /\ resp' = Response(c, "login", 200, FALSE,
                                  UserView(accounts, id))
              /\ UNCHANGED <<accounts, orderVars, reg>>
         ELSE /\ resp' = Response(c, "login", 401, FALSE, NoView)
              /\ UNCHANGED <<accounts, sessions, orderVars, reg>>

\* ----------------------------------------------------- UserLogoutResource
\* A logout that only drops the logged_in flag.
SessionAfterLogout_FlagOnly(sess) == [sess EXCEPT !.logged_in = FALSE]

\* The session after POST /logout.
SessionAfterLogout(sess) == EmptySession

\* POST /logout
Logout(c) ==
    /\ sessions' = [sessions EXCEPT ![c] = SessionAfterLogout(sessions[c])]
    /\ resp' = Response(c, "logout", 200, FALSE, NoView)
    /\ UNCHANGED <<accounts, orderVars, reg>>

\* ---------------------------------------------------- SessionCheckResource
\* GET /check_session
CheckSession(c) ==
    /\ resp' = SessionCheck(c, sessions[c], accounts)
    /\ UNCHANGED <<accounts, sessions, orderVars, reg>>

\* -------------------------------------------------------------------- Next
AuthNext ==
    \E c \in Clients :
        \/ \E u \in Usernames, e \in Emails, p \in Passwords, s \in Salts :
               Register(c, u, e, p, s)
        \/ \E u \in Usernames \cup {Absent}, p \in Passwords \cup {Absent} :
               DeleteUser(c, u, p)
        \/ \E u \in Usernames, p \in Passwords, np \in Passwords, s \in Salts :
               ChangePassword(c, u, p, np, s)
        \/ \E u \in Usernames \cup {Absent}, p \in Passwords \cup {Absent} :
               Login(c, u, p)
        \/ Logout(c)
        \/ CheckSession(c)

Next == AuthNext

Spec == Init /\ [][Next]_vars

\* ---------------------------------------------------- OrderResource.post
LineItems == [product_id : ProductIds, quantity : Quantities]

RECURSIVE SeqsUpTo(_, _)
SeqsUpTo(S, n) ==
    IF n = 0 THEN {<<>>}
    ELSE LET shorter == SeqsUpTo(S, n - 1)
         IN  shorter \cup {Append(q, x) : q \in shorter, x \in S}

\* The order_details lists requests carry, the empty list included.
ItemLists == SeqsUpTo(LineItems, MaxItems)

\* An id that is above the committed rows only.
NextOrderId_CommittedOnly(ords, t) ==
    IF DOMAIN ords = {} THEN 1 ELSE SetMax(DOMAIN ords) + 1

\* The id db.session.flush() gives the new Order row: above every id in the
\* table and every id held by a unit of work in flight.
NextOrderId(ords, t) ==
    LET used == DOMAIN ords \cup
                {t[c].order_id : c \in {d \in Clients : t[d].pc = "open"}}
    IN  IF used = {} THEN 1 ELSE SetMax(used) + 1

\* OrderDetail(order_id=new_order.id, product_id=..., quantity=...)
DetailRow(order_id, item) ==
    [order_id |-> order_id, product_id |-> item.product_id,
     quantity |-> item.quantity]

\* Lines 444-449: the Order header is added and flushed inside the unit of
\* work; nothing is committed yet.
OrderBegin(c, uid, items) ==
    /\ tx[c].pc = "idle"
    /\ NextOrderId(orders, tx) <= MaxOrders
    /\ tx' = [tx EXCEPT ![c] =
                 [pc |-> "open", user_id |-> uid, items |-> items,
                  order_id |-> NextOrderId(orders, tx), added |-> <<>>]]
    /\ UNCHANGED <<authVars, resp, orders, orderDetails>>

\* Lines 451-457: one pass of the loop adds the next OrderDetail.
OrderAddDetail(c) ==
    /\ tx[c].pc = "open"
    /\ Len(tx[c].added) < Len(tx[c].items)
    /\ tx' = [tx EXCEPT ![c].added =
                 Append(@, DetailRow(tx[c].order_id,
                                     tx[c].items[Len(tx[c].added) + 1]))]
    /\ UNCHANGED <<authVars, resp, orders, orderDetails>>

\* The order table after db.session.commit() of the unit of work t.
CommittedOrders(ords, t) == ords @@ (t.order_id :> [user_id |-> t.user_id])

\* The order_detail table after db.session.commit() of the unit of work t.
CommittedDetails(dets, t) == dets \o t.added

\* Lines 459-460: commit, then 201.
OrderCommit(c) ==
    /\ tx[c].pc = "open"
    /\ Len(tx[c].added) = Len(tx[c].items)
    /\ orders' = CommittedOrders(orders, tx[c])
    /\ orderDetails' = CommittedDetails(orderDetails, tx[c])
    /\ tx' = [tx EXCEPT ![c] = IdleTx]
    /\ resp' = Response(c, "create_order", 201, FALSE, NoView)
    /\ UNCHANGED authVars

\* A header that was committed when it was inserted.
OrdersAfterFault_HeaderKept(ords, t) ==
    ords @@ (t.order_id :> [user_id |-> t.user_id])

\* The order table after a unit of work ended without its commit: the header
\* was only flushed (line 449), so the table is as it was.
OrdersAfterFault(ords, t) == ords

\* A store fault while a detail is inserted or at commit: the exception leaves
\* the handler (500) and the unit of work ends without a commit.
OrderFault(c) ==
    /\ tx[c].pc = "open"
    /\ orders' = OrdersAfterFault(orders, tx[c])
    /\ tx' = [tx EXCEPT ![c] = IdleTx]
    /\ resp' = Response(c, "create_order", 500, FALSE, NoView)
    /\ UNCHANGED <<authVars, orderDetails>>

\* One registration, so that createOrder requests can name an existing user.
RegisterAlice == Register("c1", "alice", "a@shop", "secret1", "s1")

OrderNext ==
    \/ RegisterAlice
    \/ \E c \in Clients :
        \/ \E uid \in OrderUserIds, items \in ItemLists :
               OrderBegin(c, uid, items)
        \/ OrderAddDetail(c)
        \/ OrderCommit(c)
        \/ OrderFault(c)

SpecOrders == Init /\ [][OrderNext]_vars

\* --------------------------- UserAuthResource.post, its steps interleaved
\* Lines 84-85: the request is read and the username looked up.
RegisterLookup(c, u, e, p, salt) ==
    /\ reg[c].pc \in {"idle", "done"}
    /\ reg' = [reg EXCEPT ![c] =
                  [pc |-> "looked_up", username |-> u, email |-> e,
                   password |-> p, salt |-> salt,
                   found |-> UsernameTaken(accounts, u), status |-> None]]
    /\ UNCHANGED <<accounts, sessions, resp, orderVars>>

\* The register request of client c once it is answered.
AnsweredReg(r, status) ==
    [IdleReg EXCEPT !.pc = "done", !.username = r.username,
                    !.found = r.found, !.status = status]

\* Lines 86-107: 400 when the lookup found a row; otherwise the insert, the
\* commit and the login, on the store as it is by now.
RegisterInsert(c) ==
    /\ reg[c].pc = "looked_up"
    /\ IF reg[c].found
       THEN /\ reg' = [reg EXCEPT ![c] = AnsweredReg(reg[c], 400)]
            /\ resp' = Response(c, "register", 400, FALSE, NoView)
            /\ UNCHANGED <<accounts, sessions, orderVars>>
       ELSE LET id == NextUserId(accounts) IN
            /\ id <= MaxUserId
            /\ accounts' = accounts @@ (id :>
                   [username |-> reg[c].username, email |-> reg[c].email,
                    password_hash |->
                        generate_password_hash(reg[c].salt, reg[c].password)])
            /\ sessions' = [sessions EXCEPT
                               ![c] = LoggedInSession(id, reg[c].username)]
            /\ reg' = [reg EXCEPT ![c] = AnsweredReg(reg[c], 201)]
            /\ resp' = Response(c, "register", 201, FALSE, NoView)
            /\ UNCHANGED orderVars

\* Line 98 when the user_auth table has a unique constraint on username and a
\* row of that name was committed since the lookup: the commit raises, which
\* the handler does not catch (500).
RegisterConflict(c) ==
    /\ reg[c].pc = "looked_up"
    /\ ~reg[c].found
    /\ UsernameTaken(accounts, reg[c].username)
    /\ reg' = [reg EXCEPT ![c] = AnsweredReg(reg[c], 500)]
    /\ resp' = Response(c, "register", 500, FALSE, NoView)
    /\ UNCHANGED <<accounts, sessions, orderVars>>

RaceNext ==
    \E c \in Clients :
        \/ \E u \in Usernames, e \in Emails, p \in Passwords, s \in Salts :
               RegisterLookup(c, u, e, p, s)
        \/ RegisterInsert(c)
        \/ RegisterConflict(c)

SpecRace == Init /\ [][RaceNext]_vars

\* ================================================================== claims
\* The accounts whose username is u.
AccountsNamed(accts, u) == {i \in DOMAIN accts : accts[i].username = u}

\* Some account named u has a digest that is the hash of p under its own salt.
CredentialsVerify(accts, u, p) ==
    \E i \in AccountsNamed(accts, u) :
        accts[i].password_hash =
            generate_password_hash(accts[i].password_hash.salt, p)

\* The client whose request of kind op the step answers, if it answers one.
Answered(op) == IF resp'.op = op THEN {resp'.client} ELSE {}

\* What check_session would answer client c in the state after the step.
CheckAfter(c) == SessionCheck(c, sessions'[c], accounts')

\* The createOrder request of client c ends in this step.
RequestEnds(c) == tx[c].pc = "open" /\ tx'[c].pc = "idle"

\* The acting user of client c's request is an existing account.
ActingUserExists(c) == tx[c].user_id \in DOMAIN accounts

\* Some product is not in the catalog; every quantity is fine.
NamesMissingProduct(items) ==
    /\ \E k \in 1..Len(items) : items[k].product_id \notin Products
    /\ \A k \in 1..Len(items) : items[k].quantity >= 1

\* Some quantity is below 1; every product is in the catalog.
NamesLowQuantity(items) ==
    /\ \E k \in 1..Len(items) : items[k].quantity < 1
    /\ \A k \in 1..Len(items) : items[k].product_id \in Products

OrderTablesUnchanged ==
    /\ DOMAIN orders' = DOMAIN orders
    /\ Len(orderDetails') = Len(orderDetails)

\* No two accounts share a username.
UniqueUsernames ==
    \A i, j \in DOMAIN accounts :
        accounts[i].username = accounts[j].username => i = j

\* ---- C1
\* C1: every session that holds a user_id references an Account that exists,
\* in every state reachable by register, login, logout, delete and
\* change-password requests of any client.
C1_SessionsReferenceAccounts ==
    \A c \in Clients :
        sessions[c].user_id # None => sessions[c].user_id \in DOMAIN accounts

\* ---- C2
\* C2: the store never holds an Order without an OrderDetail row.
C2_NoOrderWithoutDetails ==
    \A o \in DOMAIN orders :
        \E k \in 1..Len(orderDetails) : orderDetails[k].order_id = o

\* ---- C3
\* C3: a createOrder of an existing user that names a product the catalog
\* does not hold (with quantities of at least 1), and that meets no store
\* fault, ends with ProductNotFound (404) and leaves the number of Order rows
\* and of OrderDetail rows as they were.
C3_MissingProductRejected ==
    [][\A c \in Answered("create_order") :
          (RequestEnds(c) /\ ActingUserExists(c)
                          /\ NamesMissingProduct(tx[c].items)
                          /\ resp'.status # 500)
          => (resp'.status = 404 /\ OrderTablesUnchanged)]_vars

\* ---- C4
\* C4: a createOrder of an existing user with a quantity below 1 for products
\* that all exist, and that meets no store fault, ends with InvalidLineItem
\* (400) and writes no Order row and no OrderDetail row.
C4_LowQuantityRejected ==
    [][\A c \in Answered("create_order") :
          (RequestEnds(c) /\ ActingUserExists(c)
                          /\ NamesLowQuantity(tx[c].items)
                          /\ resp'.status # 500)
          => (resp'.status = 400 /\ OrderTablesUnchanged)]_vars

\* ---- C5
\* C5: a createOrder that ends in a fault after the header insert (at any of
\* its details or at commit) leaves both tables as they were and keeps nothing
\* pending; the tables change only when a request commits, and then by
\* exactly that request's header and details.
C5_FaultRollsBackUnit ==
    [][/\ \A c \in Clients :
             (RequestEnds(c) /\ resp'.client = c /\ resp'.status = 500)
             => (orders' = orders /\ orderDetails' = orderDetails
                 /\ tx'[c].added = <<>> /\ tx'[c].order_id = None)
       /\ (orders' # orders \/ orderDetails' # orderDetails)
             => \E c \in Clients :
                   /\ RequestEnds(c)
                   /\ resp'.client = c /\ resp'.status = 201
                   /\ Len(tx[c].added) = Len(tx[c].items)
                   /\ DOMAIN orders' = DOMAIN orders \cup {tx[c].order_id}
                   /\ tx[c].order_id \notin DOMAIN orders
                   /\ \A o \in DOMAIN orders : orders'[o] = orders[o]
                   /\ orderDetails' = orderDetails \o tx[c].added]_vars

\* A createOrder has just ended in a fault while another order stays
\* committed with both of its details.
C5_Witness ==
    /\ resp.op = "create_order" /\ resp.status = 500
    /\ tx[resp.client].pc = "idle"
    /\ Cardinality(DOMAIN orders) = 1
    /\ Len(orderDetails) = 2

\* ---- C6
\* C6: a register of a username that no account has succeeds with 201 and
\* leaves exactly one account of that name; a register of a username that an
\* account has fails with 400 and changes no account; no two accounts ever
\* share a username.
C6_RegisterKeepsUsernamesUnique ==
    /\ []UniqueUsernames
    /\ [][\A c \in Answered("register"), u \in Usernames, e \in Emails,
             p \in Passwords, s \in Salts :
             Register(c, u, e, p, s)
             => IF AccountsNamed(accounts, u) # {}
                THEN resp'.status = 400 /\ accounts' = accounts
                ELSE /\ resp'.status = 201
                     /\ Cardinality(AccountsNamed(accounts', u)) = 1
                     /\ Cardinality(DOMAIN accounts') =
                            Cardinality(DOMAIN accounts) + 1]_vars

\* A second register of the only account's username has just been refused.
C6_Witness ==
    /\ resp.op = "register" /\ resp.status = 400
    /\ Cardinality(DOMAIN accounts) = 1

\* ---- C7
\* C7: a login whose username is unknown or whose password does not verify
\* returns 401 and leaves the session of the requesting client as it was.
C7_FailedLoginKeepsSession ==
    [][\A c \in Answered("login"), u \in Usernames, p \in Passwords :
          (Login(c, u, p) /\ ~CredentialsVerify(accounts, u, p))
          => (resp'.status = 401 /\ sessions'[c] = sessions[c])]_vars

\* A login has just failed on a session that is authenticated as an account.
C7_Witness ==
    /\ resp.op = "login" /\ resp.status = 401
    /\ sessions[resp.client].user_id \in DOMAIN accounts

\* ---- C8
\* C8: right after a login with the password of an existing account,
\* check_session on that session reports authenticated: true with the id,
\* username and email of that account, whatever the session held before.
C8_LoginThenCheckSession ==
    [][\A c \in Answered("login"), u \in Usernames, p \in Passwords :
          (Login(c, u, p) /\ CredentialsVerify(accounts, u, p))
          => /\ resp'.status = 200
             /\ CheckAfter(c).status = 200
             /\ CheckAfter(c).authenticated
             /\ CheckAfter(c).view.id \in AccountsNamed(accounts, u)
             /\ CheckAfter(c).view.username = u
             /\ CheckAfter(c).view.email =
                    accounts[CheckAfter(c).view.id].email
             /\ CheckAfter(c).view = resp'.view]_vars

\* bob, the second account, has just logged in.
C8_Witness ==
    /\ resp.op = "login" /\ resp.status = 200
    /\ resp.view.username = "bob" /\ resp.view.id = 2
    /\ sessions[resp.client].user_id = 2
    /\ Cardinality(DOMAIN accounts) = 2

\* ---- C9
\* C9: right after a delete with the correct password the account is gone,
\* and check_session on any session that was authenticated as it, of the
\* deleting client or of another, reports authenticated: false.
C9_DeleteThenCheckSession ==
    [][\A c \in Answered("delete"), u \in Usernames, p \in Passwords :
          (DeleteUser(c, u, p) /\ CredentialsVerify(accounts, u, p))
          => /\ resp'.status = 200
             /\ AccountsNamed(accounts', u) = {}
             /\ \A d \in Clients :
                   sessions[d].user_id \in AccountsNamed(accounts, u)
                   => ~SessionCheck(d, sessions'[d], accounts').authenticated
       ]_vars

\* An account has just been deleted by one client while the session of
\* another client still holds its id.
C9_Witness ==
    /\ resp.op = "delete" /\ resp.status = 200
    /\ \E d \in Clients \ {resp.client} :
          /\ sessions[d].user_id # None
          /\ sessions[d].user_id \notin DOMAIN accounts

\* ---- C10
\* C10: logout returns 200 from any session state and leaves the session
\* without a user (check_session then reports authenticated: false); a logout
\* right after a logout of the same client returns 200 again and changes
\* nothing.
C10_LogoutIdempotent ==
    [][\A c \in Answered("logout") :
          Logout(c)
          => /\ resp'.status = 200
             /\ sessions'[c].user_id = None
             /\ ~sessions'[c].logged_in
             /\ CheckAfter(c).status = 200
             /\ ~CheckAfter(c).authenticated
             /\ (resp.op = "logout" /\ resp.client = c)
                   => (sessions' = sessions /\ resp' = resp)]_vars

\* A client has just logged out while the account it registered exists.
C10_Witness ==
    /\ resp.op = "logout" /\ resp.status = 200
    /\ sessions[resp.client].user_id = None
    /\ DOMAIN accounts # {}

\* ---- C11
\* C11: right after a register that creates the account, check_session on
\* the requesting client reports authenticated: true with the id, username
\* and email of the new account; a register refused as a duplicate username
\* leaves the session of the requesting client as it was.
C11_RegisterLogsIn ==
    [][\A c \in Answered("register"), u \in Usernames, e \in Emails,
          p \in Passwords, s \in Salts :
          Register(c, u, e, p, s)
          => IF AccountsNamed(accounts, u) # {}
             THEN resp'.status = 400 /\ sessions'[c] = sessions[c]
             ELSE /\ resp'.status = 201
                  /\ CheckAfter(c).status = 200
                  /\ CheckAfter(c).authenticated
                  /\ CheckAfter(c).view.id \in DOMAIN accounts' \ DOMAIN accounts
                  /\ CheckAfter(c).view.username = u
                  /\ CheckAfter(c).view.email = e]_vars

\* bob has just registered as the second account and his client's session
\* holds his id.
C11_Witness ==
    /\ resp.op = "register" /\ resp.status = 201
    /\ Cardinality(DOMAIN accounts) = 2
    /\ sessions[resp.client].user_id = 2
    /\ accounts[2].username = "bob"

\* ---- C12
\* C12: a delete for a username that no account has answers 404, and a delete
\* whose password does not verify against the account answers 401; both leave
\* every account and every session as they were.
C12_RefusedDeleteChangesNothing ==
    [][\A c \in Answered("delete"), u \in Usernames, p \in Passwords :
          (DeleteUser(c, u, p) /\ ~CredentialsVerify(accounts, u, p))
          => /\ resp'.status =
                    (IF AccountsNamed(accounts, u) = {} THEN 404 ELSE 401)
             /\ accounts' = accounts
             /\ sessions' = sessions]_vars

\* A delete with a wrong password has just been refused while the requesting
\* client is authenticated as an existing account.
C12_Witness ==
    /\ resp.op = "delete" /\ resp.status = 401
    /\ sessions[resp.client].user_id \in DOMAIN accounts

\* ---- C13
\* C13: a change-password whose old password does not verify answers 401 and
\* leaves the stored digests, and so what logs in, as they were; one whose
\* old password verifies answers 200, after which a login with the new
\* password is accepted and a login with the old password, when it differs
\* from the new one, is refused; no other account changes.
C13_ChangePasswordReplacesCredential ==
    [][\A c \in Answered("patch"), u \in Usernames, p \in Passwords,
          np \in Passwords, s \in Salts :
          ChangePassword(c, u, p, np, s)
          => IF ~CredentialsVerify(accounts, u, p)
             THEN /\ resp'.status = 401
                  /\ accounts' = accounts
                  /\ \A q \in Passwords :
                        LoginAccepts(accounts', u, q)
                            = LoginAccepts(accounts, u, q)
             ELSE /\ resp'.status = 200
                  /\ LoginAccepts(accounts', u, np)
                  /\ (p # np => ~LoginAccepts(accounts', u, p))
                  /\ DOMAIN accounts' = DOMAIN accounts
                  /\ \A i \in DOMAIN accounts \ AccountsNamed(accounts, u) :
                        accounts'[i] = accounts[i]]_vars

\* A password has just been changed, and one account that took "secret1" at
\* registration or since now logs in with "wrong" only.
C13_Witness ==
    /\ resp.op = "patch" /\ resp.status = 200
    /\ \E u \in Usernames :
          LoginAccepts(accounts, u, "wrong")
          /\ ~LoginAccepts(accounts, u, "secret1")

\* ---- C14
\* C14: check_session changes no session and no account; on a session without
\* a user_id it answers 200 with authenticated: false, on a session whose
\* user_id names no existing account it answers 404 with authenticated:
\* false, and otherwise 200 with authenticated: true.
C14_CheckSessionReadOnly ==
    [][\A c \in Answered("check_session") :
          CheckSession(c)
          => /\ accounts' = accounts
             /\ sessions' = sessions
             /\ IF sessions[c].user_id = None
                THEN resp'.status = 200 /\ ~resp'.authenticated
                ELSE IF sessions[c].user_id \notin DOMAIN accounts
                THEN resp'.status = 404 /\ ~resp'.authenticated
                ELSE resp'.status = 200 /\ resp'.authenticated]_vars

\* check_session has just answered 404 on a session whose account is gone.
C14_Witness ==
    /\ resp.op = "check_session" /\ resp.status = 404
    /\ ~resp.authenticated
    /\ sessions[resp.client].user_id # None
    /\ sessions[resp.client].user_id \notin DOMAIN accounts

\* ---- C16
\* C16: a change-password that succeeds leaves every session as it was, that
\* of the requesting client and those of the other clients.
C16_ChangePasswordKeepsSessions ==
    [][\A c \in Answered("patch"), u \in Usernames, p \in Passwords,
          np \in Passwords, s \in Salts :
          (ChangePassword(c, u, p, np, s) /\ CredentialsVerify(accounts, u, p))
          => (resp'.status = 200 /\ sessions' = sessions)]_vars

\* A password has just been changed while both clients are authenticated as
\* one existing account.
C16_Witness ==
    /\ resp.op = "patch" /\ resp.status = 200
    /\ \A c \in Clients : sessions[c].user_id \in DOMAIN accounts
    /\ \A c, d \in Clients : sessions[c].user_id = sessions[d].user_id

\* ---- C15
\* The list is not empty, every product is in the catalog and every quantity
\* is at least 1.
NamesValidItems(items) ==
    /\ Len(items) >= 1
    /\ \A k \in 1..Len(items) :
          items[k].product_id \in Products /\ items[k].quantity >= 1

\* C15: a createOrder whose acting user id names no existing account (with
\* valid line items), and that meets no store fault, ends with UserNotFound
\* (404) and writes no Order row and no OrderDetail row.
C15_UnknownUserRejected ==
    [][\A c \in Answered("create_order") :
          (RequestEnds(c) /\ ~ActingUserExists(c)
                          /\ NamesValidItems(tx[c].items)
                          /\ resp'.status # 500)
          => (resp'.status = 404 /\ OrderTablesUnchanged)]_vars

\* ---- C18
\* The clients with a createOrder in flight.
OpenClients == {c \in Clients : tx[c].pc = "open"}

\* The OrderDetail row for item k of the request of client c.
ExpectedRow(c, k) ==
    [order_id |-> tx[c].order_id,
     product_id |-> tx[c].items[k].product_id,
     quantity |-> tx[c].items[k].quantity]

\* Requests in flight hold order ids that differ from each other and from
\* every committed id, each pending detail carries the id of its own request
\* and the product and quantity of its item, and every committed detail
\* belongs to a committed order.
UnitsOfWorkApart ==
    /\ \A c \in OpenClients :
          /\ tx[c].order_id \notin DOMAIN orders
          /\ \A d \in OpenClients \ {c} : tx[d].order_id # tx[c].order_id
          /\ \A k \in 1..Len(tx[c].added) : tx[c].added[k] = ExpectedRow(c, k)
    /\ \A k \in 1..Len(orderDetails) :
          orderDetails[k].order_id \in DOMAIN orders

\* C18: a createOrder that succeeds with n line items adds one Order header,
\* under an id no other order has, and n OrderDetail rows after the rows
\* already there, the k-th with that id and the product and quantity of the
\* k-th item; requests that interleave hold distinct ids and no detail is
\* attached to the order of another request.
C18_CommitWritesOwnRows ==
    /\ []UnitsOfWorkApart
    /\ [][\A c \in Answered("create_order") :
             (RequestEnds(c) /\ resp'.status = 201)
             => LET oid == tx[c].order_id
                    n == Len(tx[c].items)
                    m == Len(orderDetails)
                IN  /\ oid \notin DOMAIN orders
                    /\ DOMAIN orders' = DOMAIN orders \cup {oid}
                    /\ orders'[oid].user_id = tx[c].user_id
                    /\ \A o \in DOMAIN orders : orders'[o] = orders[o]
                    /\ Len(orderDetails') = m + n
                    /\ \A k \in 1..m : orderDetails'[k] = orderDetails[k]
                    /\ \A k \in 1..n :
                          orderDetails'[m + k] = ExpectedRow(c, k)]_vars

\* Two interleaved requests have both committed, the one with the later id
\* first, each with its own details.
C18_Witness ==
    /\ resp.op = "create_order" /\ resp.status = 201
    /\ DOMAIN orders = {1, 2}
    /\ Len(orderDetails) = 3
    /\ orderDetails[1].order_id = 2
    /\ orderDetails[3].order_id = 1

\* ---- C19
\* C19: a delete that succeeds leaves as it was every session that is
\* authenticated as an account that still exists afterwards, the session of
\* the requesting client included.
C19_DeleteKeepsOtherSessions ==
    [][\A c \in Answered("delete"), u \in Usernames, p \in Passwords :
          (DeleteUser(c, u, p) /\ CredentialsVerify(accounts, u, p))
          => \A d \in Clients :
                sessions[d].user_id \in DOMAIN accounts'
                => sessions'[d] = sessions[d]]_vars

\* ---- C20
\* C20: whenever check_session would report authenticated: true on a session,
\* the account it reports is the one the session's last successful login or
\* registration was for (the session keeps that account's username beside
\* its id).
C20_SessionReportsOwnAccount ==
    \A c \in Clients :
        SessionCheck(c, sessions[c], accounts).authenticated
        => SessionCheck(c, sessions[c], accounts).view.username
               = sessions[c].username

\* ---- C17
\* C17: when the register requests of two clients for one username both did
\* their lookup before either inserted (neither lookup found a row), one of
\* them is answered 201 and the other 400, and exactly one account of that
\* name exists once both are answered.
C17_ConcurrentRegisterOneWins ==
    \A c, d \in Clients :
        (/\ c # d
         /\ reg[c].pc = "done" /\ reg[d].pc = "done"
         /\ reg[c].username = reg[d].username
         /\ ~reg[c].found /\ ~reg[d].found)
        => /\ {reg[c].status, reg[d].status} = {201, 400}
           /\ Cardinality(AccountsNamed(accounts, reg[c].username)) = 1

====
